---- MODULE Spec2Model ----
(***************************************************************************)
(* A model of FAB-TORCH: the double-well / many-well target energies       *)
(* (fab/target_distributions/many_well.py), the annealed importance        *)
(* sampler they configure, and the two-moons training script               *)
(* (examples/two_moons_fab.py).                                            *)
(*                                                                         *)
(* Tensors are records [shape, data]: shape is the tuple of dimension      *)
(* sizes, data the entries in row-major order.  Entries are integers; the  *)
(* inputs are drawn from even integers so that 0.5 * v^2 is exact.         *)
(***************************************************************************)
EXTENDS Integers, Sequences, FiniteSets, TLC

VARIABLES
    \* the energies: the object, the input batch, the call made and its result
    self, x, ret, called,
    \* the annealed importance sampler built by ManyWellEnergy.__init__
    ais_pc, ais, samples, log_w, hist, ais_x, ais_log_w, test_set,
    \* train_fab and the trainer it runs
    pc, cfg, built, transition_operator, error, op_state, flow_params,
    opt_state, plot_number_iterator, it, done_steps

wellVars == <<self, x, ret, called>>
aisVars == <<ais_pc, ais, samples, log_w, hist, ais_x, ais_log_w, test_set>>
trainVars == <<pc, cfg, built, transition_operator, error, op_state, flow_params,
               opt_state, plot_number_iterator, it, done_steps>>
vars == <<wellVars, aisVars, trainVars>>

(***************************************************************************)
(* Bounds of the model.                                                    *)
(***************************************************************************)
MaxWells == 2
MaxBatch == 2

\* entry values of input tensors (even, see above)
Vals == {-2, 0, 4}
\* the value after v in the cycle of the entry values
NextVal(v) == IF v = -2 THEN 0 ELSE IF v = 0 THEN 4 ELSE -2
\* values of the coefficient a passed to the constructor (default 0.0)
AVals == {0, 1}

(***************************************************************************)
(* Tensor helpers (the torch operations the energies use).                 *)
(***************************************************************************)
RECURSIVE Prod(_)
Prod(s) == IF s = <<>> THEN 1 ELSE Head(s) * Prod(Tail(s))

Min(a, b) == IF a <= b THEN a ELSE b
Max(a, b) == IF a >= b THEN a ELSE b

NoTensor == [shape |-> <<>>, data |-> <<>>]

RECURSIVE Cycle(_, _)
Cycle(v, k) == IF k = 0 THEN v ELSE Cycle(NextVal(v), k - 1)

\* the input batches of N points of width W: the first row takes every value
\* of Vals in every column; the rows are computed independently of each
\* other, and row r + 1 is row r with every entry moved on by one value, so
\* that no two neighbouring rows agree in any column
Tensors2D(N, W) ==
    { [shape |-> <<N, W>>,
       data  |-> [k \in 1..(N * W) |-> Cycle(row[((k - 1) % W) + 1], (k - 1) \div W)]] :
      row \in [1..W -> Vals] }

Rows(t) == t.shape[1]
Cols(t) == t.shape[2]
At(t, r, c) == t.data[(r - 1) * Cols(t) + c]

\* x[:, lo:hi] with python's clamping of slice bounds (0-based, hi exclusive)
Slice(t, lo, hi) ==
    LET l == Min(lo, Cols(t))
        h == Max(l, Min(hi, Cols(t)))
        w == h - l
    IN [shape |-> <<Rows(t), w>>,
        data  |-> [k \in 1..(Rows(t) * w) |->
                     At(t, ((k - 1) \div w) + 1, l + ((k - 1) % w) + 1)]]

\* elementwise map helpers
Scale(k, t) == [shape |-> t.shape, data |-> [i \in DOMAIN t.data |-> k * t.data[i]]]
Pow(t, n) ==
    [shape |-> t.shape,
     data  |-> [i \in DOMAIN t.data |->
                  IF n = 2 THEN t.data[i] * t.data[i]
                  ELSE t.data[i] * t.data[i] * t.data[i] * t.data[i]]]
Half(t) == [shape |-> t.shape, data |-> [i \in DOMAIN t.data |-> t.data[i] \div 2]]
Add(s, t) == [shape |-> s.shape, data |-> [i \in DOMAIN s.data |-> s.data[i] + t.data[i]]]
Neg(t) == Scale(-1, t)

RECURSIVE SumTo(_, _)
SumTo(f, n) == IF n = 0 THEN 0 ELSE f[n] + SumTo(f, n - 1)

\* t.sum(dim=-1, keepdim=True) of a 2-D tensor
SumLastKeepdim(t) ==
    [shape |-> <<Rows(t), 1>>,
     data  |-> [r \in 1..Rows(t) |-> SumTo([c \in 1..Cols(t) |-> At(t, r, c)], Cols(t))]]

\* torch.squeeze(t): every dimension of size 1 is removed
Squeeze(t) == [shape |-> SelectSeq(t.shape, LAMBDA s : s # 1), data |-> t.data]

RECURSIVE Concat(_)
Concat(ss) == IF ss = <<>> THEN <<>> ELSE Head(ss) \o Concat(Tail(ss))

\* torch.stack(ts) of a non-empty list of tensors of one shape (dim=0)
Stack(ts) ==
    [shape |-> <<Len(ts)>> \o ts[1].shape,
     data  |-> Concat([i \in 1..Len(ts) |-> ts[i].data])]

\* torch.sum(t, dim=0)
SumDim0(t) ==
    LET n == t.shape[1]
        m == Prod(Tail(t.shape))
    IN [shape |-> Tail(t.shape),
        data  |-> [j \in 1..m |-> SumTo([i \in 1..n |-> t.data[(i - 1) * m + j]], n)]]

(***************************************************************************)
(* Results of a call: a returned tensor or a raised error.                 *)
(***************************************************************************)
AssertMsg == "AssertionError: x does not match dim"
Returned(t) == [err |-> "none", val |-> t]
Raised(e) == [err |-> e, val |-> NoTensor]
NoRet == [err |-> "pending", val |-> NoTensor]

(***************************************************************************)
(* DoubleWellEnergy                                                        *)
(***************************************************************************)
\* DoubleWellEnergy._energy
DoubleWell_energy_(obj, t) ==
    LET d  == Slice(t, 0, 1)
        v  == Slice(t, 1, Cols(t))
        e1 == Add(Add(Scale(obj._a, d), Scale(obj._b, Pow(d, 2))), Scale(obj._c, Pow(d, 4)))
        e2 == Half(SumLastKeepdim(Pow(v, 2)))
    IN Add(e1, e2)

\* Energy.energy with temperature=None
Energy_energy(obj, t) ==
    IF t.shape[Len(t.shape)] # obj._dim
    THEN Raised(AssertMsg)
    ELSE Returned(DoubleWell_energy_(obj, t))

\* DoubleWellEnergy.log_prob
DoubleWell_log_prob(obj, t) ==
    LET e == Energy_energy(obj, t)
    IN IF e.err # "none" THEN e ELSE Returned(Squeeze(Neg(e.val)))

(***************************************************************************)
(* ManyWellEnergy                                                          *)
(***************************************************************************)
\* the part of ManyWellEnergy.__init__ that sets the dimensions
ManyWell_init(dim, a) ==
    [cls |-> "ManyWellEnergy", n_wells |-> dim \div 2, _dim |-> 2, dim |-> dim,
     _a |-> a, _b |-> -4, _c |-> 1]

\* DoubleWellEnergy.__init__ (with Energy.__init__)
DoubleWell_init(dim, a) ==
    [cls |-> "DoubleWellEnergy", n_wells |-> 0, _dim |-> dim, dim |-> dim,
     _a |-> a, _b |-> -4, _c |-> 1]

\* a variant of WellTerms: every term is taken on the first well, x[:, 0:2]
WellTerms_FirstWellOnly(obj, t) ==
    [i \in 1..obj.n_wells |-> DoubleWell_log_prob(obj, Slice(t, 0, 2))]

\* the list comprehension of ManyWellEnergy.log_prob, well by well
WellTerms(obj, t) ==
    [i \in 1..obj.n_wells |-> DoubleWell_log_prob(obj, Slice(t, (i - 1) * 2, (i - 1) * 2 + 2))]

\* ManyWellEnergy.log_prob
ManyWell_log_prob(obj, t) ==
    LET terms  == WellTerms(obj, t)
        failed == { i \in 1..obj.n_wells : terms[i].err # "none" }
    IN IF failed # {}
       THEN terms[CHOOSE i \in failed : \A j \in failed : i <= j]
       ELSE Returned(SumDim0(Stack([i \in 1..obj.n_wells |-> terms[i].val])))

\* ManyWellEnergy.log_prob_2D
ManyWell_log_prob_2D(obj, t) == DoubleWell_log_prob(obj, t)

(***************************************************************************)
(* Values of the variables of the parts a specification does not run.      *)
(***************************************************************************)
WellIdle ==
    /\ self = ManyWell_init(2, 0)
    /\ x = NoTensor
    /\ ret = NoRet
    /\ called = "none"

AisIdle ==
    /\ ais_pc = "off"
    /\ ais = [n_intermediate_distributions |-> 0, B_space |-> <<>>, n |-> 0, j |-> 0]
    /\ samples = <<>>
    /\ log_w = <<>>
    /\ hist = <<>>
    /\ ais_x = <<>>
    /\ ais_log_w = <<>>
    /\ test_set = NoRet

TrainIdle ==
    /\ pc = "off"
    /\ cfg = [n_intermediate_distributions |-> 0, n_iterations |-> 0, n_plots |-> 0,
              transition_operator_type |-> "hmc"]
    /\ built = {}
    /\ transition_operator = "none"
    /\ error = "none"
    /\ op_state = [epsilon |-> <<>>, n_moves |-> 0]
    /\ flow_params = 0
    /\ opt_state = 0
    /\ plot_number_iterator = 0
    /\ it = 0
    /\ done_steps = 0

(***************************************************************************)
(* Specification of the energies: an object and an input batch are drawn,  *)
(* then one of the log_prob methods is called on them.                     *)
(***************************************************************************)
WellDims == { 2 * k : k \in 1..MaxWells }
Widths == 1..(2 * MaxWells + 1)

WellInit ==
    /\ \E a \in AVals :
         \/ \E dim \in WellDims : self = ManyWell_init(dim, a)
         \/ \E dim \in 1..3 : self = DoubleWell_init(dim, a)
    /\ \E n \in 1..MaxBatch, w \in Widths : x \in Tensors2D(n, w)
    /\ ret = NoRet
    /\ called = "none"
    /\ AisIdle
    /\ TrainIdle

CallLogProb ==
    /\ called = "none"
    /\ self.cls = "ManyWellEnergy"
    /\ ret' = ManyWell_log_prob(self, x)
    /\ called' = "log_prob"
    /\ UNCHANGED <<self, x, aisVars, trainVars>>

CallLogProb2D ==
    /\ called = "none"
    /\ self.cls = "ManyWellEnergy"
    /\ ret' = ManyWell_log_prob_2D(self, x)
    /\ called' = "log_prob_2D"
    /\ UNCHANGED <<self, x, aisVars, trainVars>>

CallDoubleWellLogProb ==
    /\ called = "none"
    /\ self.cls = "DoubleWellEnergy"
    /\ ret' = DoubleWell_log_prob(self, x)
    /\ called' = "log_prob"
    /\ UNCHANGED <<self, x, aisVars, trainVars>>

WellNext == CallLogProb \/ CallLogProb2D \/ CallDoubleWellLogProb

SpecWell == WellInit /\ [][WellNext]_vars

(***************************************************************************)
(* Properties of the energies.                                             *)
(***************************************************************************)
\* C8: log_prob returns one scalar per sample: for a batch of N >= 1 points
\* (N = 1 included) every log_prob method that returns, returns a
\* one-dimensional vector of exactly N entries.
C8_LogProbIsVectorOfN ==
    (called # "none" /\ ret.err = "none")
        => (ret.val.shape = <<Rows(x)>> /\ Len(ret.val.data) = Rows(x))

\* the double-well log-density of one well, as the formula of the claim
RefWell(obj, d, v) ==
    -(obj._a * d + obj._b * (d * d) + obj._c * (d * d * d * d) + (v * v) \div 2)

\* the sum of the wells of row r: well i takes the coordinates 2i and 2i+1
RefManyWell(obj, t, r) ==
    SumTo([i \in 1..(obj.dim \div 2) |-> RefWell(obj, At(t, r, 2 * i - 1), At(t, r, 2 * i))],
          obj.dim \div 2)

\* C9: for a many-well energy of dimension dim and a batch of width dim,
\* log_prob of every point is the sum over the dim/2 wells of the double-well
\* log-density at (x[2i], x[2i+1]); for dim = 2 log_prob_2D gives that value too.
C9_ManyWellIsSumOfDoubleWells ==
    (/\ self.cls = "ManyWellEnergy"
     /\ called \in {"log_prob", "log_prob_2D"}
     /\ Cols(x) = self.dim
     /\ called = "log_prob_2D" => self.dim = 2)
        => /\ ret.err = "none"
           /\ Len(ret.val.data) = Rows(x)
           /\ \A r \in 1..Rows(x) : ret.val.data[r] = RefManyWell(self, x, r)

\* a call of log_prob on four dimensions whose two wells differ
C9_Witness ==
    /\ self.cls = "ManyWellEnergy"
    /\ called = "log_prob"
    /\ self.dim = 4
    /\ Cols(x) = 4
    /\ Rows(x) = 2
    /\ ret.err = "none"
    /\ At(x, 1, 1) # At(x, 1, 3)
    /\ ret.val.data[1] # ret.val.data[2]

\* C10: log_prob of a many-well energy of dimension dim returns for a batch
\* of width dim and fails with the dimension assertion for every other width.
C10_DimensionCheckGuards ==
    (self.cls = "ManyWellEnergy" /\ called = "log_prob")
        => /\ Cols(x) = self.dim => ret.err = "none"
           /\ Cols(x) # self.dim => ret.err = AssertMsg

(***************************************************************************)
(* The annealed importance sampler that ManyWellEnergy.__init__ builds and *)
(* runs (create_2d_test_set_with_ais).  The sampler itself follows section *)
(* 4.2 of the specification.  Log-densities and log-weights of a sampler   *)
(* with K stages are kept as integer numerators over the denominator K of  *)
(* the linear beta schedule.                                               *)
(***************************************************************************)
MaxStages == 2
MaxSamples == 2

\* the 2-D points the samplers move between
Pts == { <<-2, 4>>, <<4, -2>> }

\* a variant of LinSpace that leaves the end point out (step 1/steps)
LinSpace_EndExclusive(start, end, steps) ==
    [i \in 1..steps |->
       [num |-> start * steps + (i - 1) * (end - start), den |-> steps]]

\* torch.linspace(start, end, steps) for steps >= 2, as exact fractions
LinSpace(start, end, steps) ==
    [i \in 1..steps |->
       [num |-> start * (steps - 1) + (i - 1) * (end - start), den |-> steps - 1]]

\* AnnealedImportanceSampler(...) with distribution_spacing_type="linear"
AIS_init(K) ==
    [n_intermediate_distributions |-> K, B_space |-> LinSpace(0, 1, K + 1), n |-> 0, j |-> 0]

\* log-density of the base distribution (a centred isotropic normal), up to
\* scale and additive constant
Base_log_prob(p) == -((p[1] * p[1] + p[2] * p[2]) \div 2)

\* target_log_prob = self.log_prob_2D, evaluated on the batch of points ps
Target_log_prob(obj, ps) ==
    ManyWell_log_prob_2D(obj, [shape |-> <<Len(ps), 2>>,
                               data  |-> Concat([i \in 1..Len(ps) |-> ps[i]])]).val.data

\* numerator of log_p_j = (1 - beta_j) * log_base + beta_j * log_target, for
\* each point of the batch; j counts stages from 0
Intermediate_log_prob(a, obj, ps, j) ==
    LET b  == a.B_space[j + 1]
        lt == Target_log_prob(obj, ps)
    IN [i \in 1..Len(ps) |-> (b.den - b.num) * Base_log_prob(ps[i]) + b.num * lt[i]]

\* a variant of Perform_transition: the transition first, the increment after
Perform_transition_TransitionFirst(a, obj, ps, lw, j, new_ps) ==
    LET cur  == Intermediate_log_prob(a, obj, new_ps, j)
        prev == Intermediate_log_prob(a, obj, new_ps, j - 1)
    IN [samples |-> new_ps,
        log_w   |-> [i \in 1..Len(lw) |-> lw[i] + cur[i] - prev[i]],
        events  |-> << [op |-> "transition", stage |-> j, density |-> j,
                        from |-> ps, to |-> new_ps],
                       [op |-> "increment", stage |-> j, on |-> new_ps] >>]

\* one stage of sample_and_log_weights: the weight increment on the current
\* sample, then the transition (whose outcome is new_ps) with log_p_j invariant
Perform_transition(a, obj, ps, lw, j, new_ps) ==
    LET cur  == Intermediate_log_prob(a, obj, ps, j)
        prev == Intermediate_log_prob(a, obj, ps, j - 1)
    IN [samples |-> new_ps,
        log_w   |-> [i \in 1..Len(lw) |-> lw[i] + cur[i] - prev[i]],
        events  |-> << [op |-> "increment", stage |-> j, on |-> ps],
                       [op |-> "transition", stage |-> j, density |-> j,
                        from |-> ps, to |-> new_ps] >>]

\* the batches a transition operator can return: every point moved or kept
Transitions(ps) == [1..Len(ps) -> Pts]

\* a variant of Multinomial whose indices run one past the weights
Multinomial_OnePast(probs_len, num_samples) ==
    { d \in SUBSET (1..(probs_len + 1)) : d # {} /\ Cardinality(d) <= num_samples }

\* torch.multinomial(probs, num_samples, replacement=True): the sets of
\* indices (1-based) a draw can consist of; exp(.) gives every index weight
Multinomial(probs_len, num_samples) ==
    { d \in SUBSET (1..probs_len) : d # {} /\ Cardinality(d) <= num_samples }

\* ManyWellEnergy.get_ais_based_test_set_samples, for the indices drawn; the
\* returned tensor is kept by its shape
Get_ais_based_test_set_samples(obj, xs, indices, batch_size) ==
    IF \E i \in indices : i \notin DOMAIN xs
    THEN Raised("IndexError")
    ELSE [err |-> "none", val |-> [shape |-> <<batch_size, obj.dim>>, data |-> <<>>]]

MaxTestBatch == 2

AisInit ==
    /\ \E dim \in WellDims : self = ManyWell_init(dim, 0)
    /\ x = NoTensor
    /\ ret = NoRet
    /\ called = "none"
    /\ ais_pc = "init"
    /\ ais = [n_intermediate_distributions |-> 0, B_space |-> <<>>, n |-> 0, j |-> 0]
    /\ samples = <<>>
    /\ log_w = <<>>
    /\ hist = <<>>
    /\ ais_x = <<>>
    /\ ais_log_w = <<>>
    /\ test_set = NoRet
    /\ TrainIdle

\* create_2d_test_set_with_ais up to the construction of the sampler
CreateAis ==
    /\ ais_pc = "init"
    /\ \E K \in 1..MaxStages : ais' = AIS_init(K)
    /\ ais_pc' = "created"
    /\ UNCHANGED <<samples, log_w, hist, ais_x, ais_log_w, test_set, wellVars, trainVars>>

\* sample_and_log_weights(test_set_size): the draw from the base
DrawBase ==
    /\ ais_pc = "created"
    /\ \E n \in 1..MaxSamples :
         /\ samples' \in [1..n -> Pts]
         /\ log_w' = [i \in 1..n |-> 0]
         /\ ais' = [ais EXCEPT !.n = n, !.j = 0]
    /\ hist' = <<>>
    /\ ais_pc' = "annealing"
    /\ UNCHANGED <<ais_x, ais_log_w, test_set, wellVars, trainVars>>

\* sample_and_log_weights: stage j = 1..K
Stage ==
    /\ ais_pc = "annealing"
    /\ ais.j < ais.n_intermediate_distributions
    /\ \E new_ps \in Transitions(samples) :
         LET r == Perform_transition(ais, self, samples, log_w, ais.j + 1, new_ps)
         IN /\ samples' = r.samples
            /\ log_w' = r.log_w
            /\ hist' = hist \o r.events
    /\ ais' = [ais EXCEPT !.j = ais.j + 1]
    /\ UNCHANGED <<ais_pc, ais_x, ais_log_w, test_set, wellVars, trainVars>>

\* sample_and_log_weights returns; __init__ registers the buffers
RegisterBuffers ==
    /\ ais_pc = "annealing"
    /\ ais.j = ais.n_intermediate_distributions
    /\ ais_x' = samples
    /\ ais_log_w' = log_w
    /\ ais_pc' = "constructed"
    /\ hist' = <<>>
    /\ UNCHANGED <<ais, samples, log_w, test_set, wellVars, trainVars>>

\* get_ais_based_test_set_samples(batch_size)
GetTestSet ==
    /\ ais_pc = "constructed"
    /\ \E batch_size \in 1..MaxTestBatch :
         \E indices \in Multinomial(Len(ais_log_w), (batch_size * self.dim) \div 2) :
           test_set' = Get_ais_based_test_set_samples(self, ais_x, indices, batch_size)
    /\ ais_pc' = "sampled"
    /\ UNCHANGED <<ais, samples, log_w, hist, ais_x, ais_log_w, wellVars, trainVars>>

AisNext == CreateAis \/ DrawBase \/ Stage \/ RegisterBuffers \/ GetTestSet

SpecAIS == AisInit /\ [][AisNext]_vars

(***************************************************************************)
(* examples/two_moons_fab.py: train_fab.  The transition operators and the *)
(* trainer follow sections 4.1 and 4.4 of the specification.               *)
(***************************************************************************)
MaxIterations == 2
MaxPlots == 2
MaxTrainStages == 2
MaxEpsLevel == 1

OperatorTypes == {"hmc", "metropolis", "langevin"}

\* a variant of Select_transition_operator: an unknown type falls back to HMC
Select_transition_operator_Default(type) ==
    IF type = "metropolis" THEN [err |-> "none", op |-> "Metropolis"]
    ELSE [err |-> "none", op |-> "HamiltoneanMonteCarlo"]

\* lines 27-37: the operator built for a type, or the error raised
Select_transition_operator(type) ==
    IF type = "hmc" THEN [err |-> "none", op |-> "HamiltoneanMonteCarlo"]
    ELSE IF type = "metropolis" THEN [err |-> "none", op |-> "Metropolis"]
    ELSE [err |-> "NotImplementedError", op |-> "none"]

\* the tuning state a new operator starts with: one step size per stage
Operator_init(K) == [epsilon |-> [j \in 1..K |-> 0], n_moves |-> 0]

Clamp(v) == Max(-MaxEpsLevel, Min(MaxEpsLevel, v))

\* step-size tuning over one run of the sampler: at every stage the step size
\* goes up when the observed acceptance is above the target and down when
\* below (accept[j]), within the clamp; the moves are counted
Tune(op, accept) ==
    [epsilon |-> [j \in DOMAIN op.epsilon |->
                    Clamp(op.epsilon[j] + (IF accept[j] = "high" THEN 1 ELSE -1))],
     n_moves |-> op.n_moves + Len(op.epsilon)]

\* the acceptance outcomes of one run of the sampler over the K stages
Acceptances(op) == [DOMAIN op.epsilon -> {"high", "low"}]

\* next(plot_number_iterator) on iter(range(n_plots))
Next_plot_number(iter, n_plots) ==
    IF iter < n_plots THEN [err |-> "none", val |-> iter, iter |-> iter + 1]
    ELSE [err |-> "StopIteration", val |-> 0, iter |-> iter]

TrainInit ==
    /\ pc = "start"
    /\ cfg \in [n_intermediate_distributions : 1..MaxTrainStages,
                n_iterations : 0..MaxIterations,
                n_plots : 1..MaxPlots,
                transition_operator_type : OperatorTypes]
    /\ built = {}
    /\ transition_operator = "none"
    /\ error = "none"
    /\ op_state = [epsilon |-> <<>>, n_moves |-> 0]
    /\ flow_params = 0
    /\ opt_state = 0
    /\ plot_number_iterator = 0
    /\ it = 0
    /\ done_steps = 0
    /\ WellIdle
    /\ AisIdle

\* lines 22-25: seeds, flow and target
Setup ==
    /\ pc = "start"
    /\ built' = built \cup {"flow", "target"}
    /\ pc' = "transition_operator"
    /\ UNCHANGED <<cfg, transition_operator, error, op_state, flow_params, opt_state,
                   plot_number_iterator, it, done_steps, wellVars, aisVars>>

\* lines 27-37: setup transition operator
SetupTransitionOperator ==
    /\ pc = "transition_operator"
    /\ LET r == Select_transition_operator(cfg.transition_operator_type)
       IN IF r.err # "none"
          THEN /\ error' = r.err
               /\ pc' = "raised"
               /\ UNCHANGED <<transition_operator, op_state>>
          ELSE /\ transition_operator' = r.op
               /\ op_state' = Operator_init(cfg.n_intermediate_distributions)
               /\ pc' = "fab_model"
               /\ UNCHANGED error
    /\ UNCHANGED <<cfg, built, flow_params, opt_state, plot_number_iterator, it,
                   done_steps, wellVars, aisVars>>

\* lines 38-43: FABModel, optimizer, logger
BuildModel ==
    /\ pc = "fab_model"
    /\ built' = built \cup {"fab_model", "optimizer", "logger"}
    /\ pc' = "plotting"
    /\ UNCHANGED <<cfg, transition_operator, error, op_state, flow_params, opt_state,
                   plot_number_iterator, it, done_steps, wellVars, aisVars>>

\* lines 46-53: plot the target, the figure, the iterator over plot numbers
SetupPlotting ==
    /\ pc = "plotting"
    /\ plot_number_iterator' = 0
    /\ pc' = "trainer"
    /\ UNCHANGED <<cfg, built, transition_operator, error, op_state, flow_params,
                   opt_state, it, done_steps, wellVars, aisVars>>

\* line 69: Trainer(fab_model, optimizer, logger, plot)
CreateTrainer ==
    /\ pc = "trainer"
    /\ built' = built \cup {"trainer"}
    /\ pc' = "Init"
    /\ UNCHANGED <<cfg, transition_operator, error, op_state, flow_params, opt_state,
                   plot_number_iterator, it, done_steps, wellVars, aisVars>>

\* a variant of Loop_next that runs one iteration too many
Loop_next_OneMore(i, n_iterations) == IF i <= n_iterations THEN "SampleBatch" ELSE "Terminal"

\* the step the loop of Trainer.run takes when i iterations are complete
Loop_next(i, n_iterations) == IF i < n_iterations THEN "SampleBatch" ELSE "Terminal"

\* line 70: trainer.run(n_iterations, ...) enters its loop
StartRun ==
    /\ pc = "Init"
    /\ it' = 0
    /\ pc' = Loop_next(0, cfg.n_iterations)
    /\ UNCHANGED <<cfg, built, transition_operator, error, op_state, flow_params,
                   opt_state, plot_number_iterator, done_steps, wellVars, aisVars>>

\* the batch of the iteration: a run of the sampler from the flow, which
\* tunes the transition operator
SampleBatch ==
    /\ pc = "SampleBatch"
    /\ \E accept \in Acceptances(op_state) : op_state' = Tune(op_state, accept)
    /\ pc' = "ComputeLoss"
    /\ UNCHANGED <<cfg, built, transition_operator, error, flow_params, opt_state,
                   plot_number_iterator, it, done_steps, wellVars, aisVars>>

ComputeLoss ==
    /\ pc = "ComputeLoss"
    /\ pc' = "Backprop"
    /\ UNCHANGED <<cfg, built, transition_operator, error, op_state, flow_params,
                   opt_state, plot_number_iterator, it, done_steps, wellVars, aisVars>>

Backprop ==
    /\ pc = "Backprop"
    /\ pc' = "OptimizerStep"
    /\ UNCHANGED <<cfg, built, transition_operator, error, op_state, flow_params,
                   opt_state, plot_number_iterator, it, done_steps, wellVars, aisVars>>

\* the optimizer updates the flow; then the periodic plot when one is due (at
\* most n_plot of them in a run), else the next iteration
OptimizerStep ==
    /\ pc = "OptimizerStep"
    /\ flow_params' = flow_params + 1
    /\ opt_state' = opt_state + 1
    /\ done_steps' = done_steps + 1
    /\ \/ /\ plot_number_iterator < cfg.n_plots
          /\ pc' = "Plot"
          /\ it' = it
       \/ /\ it' = it + 1
          /\ pc' = Loop_next(it + 1, cfg.n_iterations)
    /\ UNCHANGED <<cfg, built, transition_operator, error, op_state,
                   plot_number_iterator, wellVars, aisVars>>

\* lines 56-66: plot(fab_model), called by the trainer: the next plot number,
\* samples of the flow, and a run of the sampler (which tunes the operator)
Plot ==
    /\ pc = "Plot"
    /\ LET r == Next_plot_number(plot_number_iterator, cfg.n_plots)
       IN IF r.err # "none"
          THEN /\ error' = r.err
               /\ pc' = "raised"
               /\ UNCHANGED <<op_state, plot_number_iterator, it>>
          ELSE /\ plot_number_iterator' = r.iter
               /\ \E accept \in Acceptances(op_state) : op_state' = Tune(op_state, accept)
               /\ it' = it + 1
               /\ pc' = Loop_next(it + 1, cfg.n_iterations)
               /\ UNCHANGED error
    /\ UNCHANGED <<cfg, built, transition_operator, flow_params, opt_state, done_steps,
                   wellVars, aisVars>>

\* lines 72-73: plot_history(logger.history)
PlotHistory ==
    /\ pc = "Terminal"
    /\ pc' = "returned"
    /\ UNCHANGED <<cfg, built, transition_operator, error, op_state, flow_params,
                   opt_state, plot_number_iterator, it, done_steps, wellVars, aisVars>>

TrainNext ==
    \/ Setup \/ SetupTransitionOperator \/ BuildModel \/ SetupPlotting \/ CreateTrainer
    \/ StartRun \/ SampleBatch \/ ComputeLoss \/ Backprop \/ OptimizerStep \/ Plot
    \/ PlotHistory

SpecTrain == TrainInit /\ [][TrainNext]_vars

\* the run is one thread of control that is never suspended
FairSpecTrain == SpecTrain /\ WF_vars(TrainNext)

(***************************************************************************)
(* Properties of the sampler.                                              *)
(***************************************************************************)
\* the weight increment of stage j evaluated on the batch ps
Increment(ps, j) ==
    [i \in 1..Len(ps) |->
       Intermediate_log_prob(ais, self, ps, j)[i] - Intermediate_log_prob(ais, self, ps, j - 1)[i]]

\* C1: in a run of the sampler, for every stage t the log-weight increment is
\* evaluated on the sample as it is before the stage-t transition, and only
\* then is the transition applied, with log_p_t invariant; the log-weights
\* are the sums of the increments on the pre-transition samples.
C1_IncrementBeforeTransition ==
    ais_pc = "annealing" =>
        /\ Len(hist) = 2 * ais.j
        /\ \A j \in 1..ais.j :
             /\ hist[2 * j - 1].op = "increment"
             /\ hist[2 * j - 1].stage = j
             /\ hist[2 * j].op = "transition"
             /\ hist[2 * j].stage = j
             /\ hist[2 * j].density = j
             /\ hist[2 * j - 1].on = hist[2 * j].from
             /\ j > 1 => hist[2 * j].from = hist[2 * j - 2].to
        /\ ais.j > 0 => samples = hist[2 * ais.j].to
        /\ \A i \in 1..Len(log_w) :
             log_w[i] = SumTo([j \in 1..ais.j |-> Increment(hist[2 * j].from, j)[i]], ais.j)

\* two stages done, the first transition moved a point, a weight is not zero
C1_Witness ==
    /\ ais_pc = "annealing"
    /\ ais.j >= 2
    /\ hist[2].to # hist[2].from
    /\ \E i \in 1..Len(log_w) : log_w[i] # 0

\* C3: for K >= 1 intermediate distributions and linear spacing the beta
\* sequence has K + 1 entries, beta_0 = 0, beta_K = 1, and never decreases.
C3_MonotoneSchedule ==
    ais_pc # "init" =>
        LET B == ais.B_space
            K == ais.n_intermediate_distributions
        IN /\ Len(B) = K + 1
           /\ \A t \in 1..(K + 1) : B[t].den > 0
           /\ B[1].num = 0
           /\ B[K + 1].num = B[K + 1].den
           /\ \A t \in 1..K : B[t].num * B[t + 1].den <= B[t + 1].num * B[t].den

\* a schedule with a beta strictly between 0 and 1
C3_Witness ==
    /\ ais_pc = "created"
    /\ ais.n_intermediate_distributions >= 2
    /\ ais.B_space[2].num > 0
    /\ ais.B_space[2].num < ais.B_space[2].den

\* C7: the batch holds n points after the base draw and after every stage,
\* the run returns n samples with n log-weights, and every index drawn from
\* the log-weights by get_ais_based_test_set_samples is an index of ais_x.
C7_BatchSizeFixed ==
    /\ ais_pc = "annealing" => (Len(samples) = ais.n /\ Len(log_w) = ais.n)
    /\ ais_pc \in {"constructed", "sampled"} =>
         /\ Len(ais_x) = ais.n
         /\ Len(ais_log_w) = ais.n
         /\ \A i \in DOMAIN ais_log_w : i \in DOMAIN ais_x
    /\ ais_pc = "sampled" => test_set.err = "none"

\* a test set drawn from two samples that went through two stages or more
C7_Witness ==
    /\ ais_pc = "sampled"
    /\ ais.n = 2
    /\ ais.n_intermediate_distributions >= 2
    /\ test_set.err = "none"
    /\ test_set.val.shape = <<2, self.dim>>

(***************************************************************************)
(* Properties of the training run.                                         *)
(***************************************************************************)
\* C4: a plot step leaves the flow parameters, the optimizer state and the
\* tuning state of the transition operator as they were.
C4_PlotLeavesStateUnchanged ==
    [][pc = "Plot" =>
         (flow_params' = flow_params /\ opt_state' = opt_state /\ op_state' = op_state)]_vars

LoopSteps == {"SampleBatch", "ComputeLoss", "Backprop", "OptimizerStep", "Plot"}

\* the order of the steps of the trainer
TrainerOrder ==
    /\ pc = "Init" => pc' \in {"SampleBatch", "Terminal"}
    /\ pc = "SampleBatch" => pc' = "ComputeLoss"
    /\ pc = "ComputeLoss" => pc' = "Backprop"
    /\ pc = "Backprop" => pc' = "OptimizerStep"
    /\ pc = "OptimizerStep" => pc' \in {"Plot", "SampleBatch", "Terminal"}
    /\ pc = "Plot" => pc' \in {"SampleBatch", "Terminal"}
    /\ pc' = "SampleBatch" => (it' = done_steps' /\ it' < cfg.n_iterations)
    /\ pc' = "Terminal" => pc \in {"Init", "OptimizerStep", "Plot"}

C6_InvalidOperatorFatalAtSetup ==
    /\ cfg.transition_operator_type \notin {"hmc", "metropolis"} =>
         /\ built \cap {"fab_model", "optimizer", "trainer"} = {}
         /\ done_steps = 0
         /\ pc \in {"start", "transition_operator", "raised"}
         /\ pc = "raised" => error = "NotImplementedError"
    /\ (cfg.transition_operator_type = "hmc" /\ pc \notin {"start", "transition_operator"})
         => transition_operator = "HamiltoneanMonteCarlo"
    /\ (cfg.transition_operator_type = "metropolis" /\ pc \notin {"start", "transition_operator"})
         => transition_operator = "Metropolis"
    /\ error = "NotImplementedError" =>
         ("trainer" \notin built /\ done_steps = 0 /\ it = 0 /\ pc = "raised")

\* the error raised for an unknown type, with only flow and target built
C6_Witness ==
    /\ pc = "raised"
    /\ error = "NotImplementedError"
    /\ cfg.transition_operator_type = "langevin"
    /\ built = {"flow", "target"}

====
